---- MODULE Spec2Model ----
(***************************************************************************)
(* Rule evaluation and tag application engine of the store-verification    *)
(* Shopify app: app/lib/productRules.server.ts (Rule Evaluator, Tag        *)
(* Merger, Rule Store), app/webhooks/products.server.ts (Payload Mapper,   *)
(* Rule Applier) and the products/create and products/update webhook       *)
(* routes.                                                                 *)
(*                                                                         *)
(* Strings are sequences of one-character strings, so that trimming,       *)
(* splitting on commas, case folding and numeric prefix parsing are        *)
(* computed, not assumed.  Numbers are exact decimals [n, d] meaning n/d    *)
(* with d a power of ten; NaN is the result of a failed parse.             *)
(***************************************************************************)
EXTENDS Integers, Sequences, FiniteSets, TLC

\* null/undefined, one value per type so that comparisons stay well-typed
NullRec == [null |-> TRUE]     \* a null record or number
NullStr == <<"null">>          \* a null string (not a sequence of characters)
NO_CHANGE == <<NullStr>>       \* the null tag list returned by mergeProductTags
NullVariants == <<NullRec>>    \* an absent variants array
NaN == [nan |-> TRUE]
Date(t) == [time |-> t]        \* a Date

(***************************************************************************)
(* Bounds of the model.                                                    *)
(***************************************************************************)
MaxProcs == 2
MaxEdits == 1
MaxRules == 2
MaxTagListLen == 2
MaxRuleListLen == 2
MaxVariants == 2
MaxPieces == 3
MaxInstalls == 2
MaxDeliveries == 2

(***************************************************************************)
(* String helpers (JavaScript String.prototype.trim / toLowerCase / split  *)
(* and Number.parseFloat / parseInt on the alphabet the model uses: the    *)
(* letters, digits, space, comma, dot and minus below; no exponent).       *)
(***************************************************************************)
IsSpace(c) == c = " "

IsDigit(c) == c \in {"0", "1", "2", "3", "4", "5", "6", "7", "8", "9"}

DigitVal(c) ==
  CASE c = "0" -> 0 [] c = "1" -> 1 [] c = "2" -> 2 [] c = "3" -> 3
    [] c = "4" -> 4 [] c = "5" -> 5 [] c = "6" -> 6 [] c = "7" -> 7
    [] c = "8" -> 8 [] c = "9" -> 9

LowerChar(c) ==
  CASE c = "A" -> "a" [] c = "B" -> "b" [] c = "C" -> "c" [] c = "M" -> "m"
    [] c = "E" -> "e" [] OTHER -> c

toLowerCase(s) == [i \in 1..Len(s) |-> LowerChar(s[i])]

RECURSIVE trimStart(_)
trimStart(s) ==
  IF s # <<>> /\ IsSpace(Head(s)) THEN trimStart(Tail(s)) ELSE s

RECURSIVE trimEnd(_)
trimEnd(s) ==
  IF s # <<>> /\ IsSpace(s[Len(s)]) THEN trimEnd(SubSeq(s, 1, Len(s) - 1)) ELSE s

\* mutant: only the leading white space is removed
trim_startOnly(s) == trimStart(s)

trim(s) == trimEnd(trimStart(s))

\* s.split(","): the pieces between commas, empty pieces included
RECURSIVE splitFrom(_, _, _)
splitFrom(s, i, cur) ==
  IF i > Len(s) THEN <<cur>>
  ELSE IF s[i] = "," THEN <<cur>> \o splitFrom(s, i + 1, <<>>)
  ELSE splitFrom(s, i + 1, Append(cur, s[i]))

split(s) == splitFrom(s, 1, <<>>)

\* number of consecutive digits of s starting at index i
RECURSIVE digitRun(_, _)
digitRun(s, i) ==
  IF i <= Len(s) /\ IsDigit(s[i]) THEN 1 + digitRun(s, i + 1) ELSE 0

\* value of the k digits of s starting at index i
RECURSIVE digitsValue(_, _, _)
digitsValue(s, i, k) ==
  IF k = 0 THEN 0
  ELSE 10 * digitsValue(s, i, k - 1) + DigitVal(s[i + k - 1])

RECURSIVE pow10(_)
pow10(k) == IF k = 0 THEN 1 ELSE 10 * pow10(k - 1)

Num(n, d) == [n |-> n, d |-> d]

\* mutant: a string with anything after the number is no number (Number(str))
parseFloat_whole(str) ==
  LET s == trimStart(str)
      neg == s # <<>> /\ s[1] = "-"
      signed == s # <<>> /\ s[1] \in {"-", "+"}
      i0 == IF signed THEN 2 ELSE 1
      ilen == digitRun(s, i0)
      dot == i0 + ilen <= Len(s) /\ s[i0 + ilen] = "."
      flen == IF dot THEN digitRun(s, i0 + ilen + 1) ELSE 0
      used == i0 - 1 + ilen + (IF dot THEN 1 + flen ELSE 0)
      mag == digitsValue(s, i0, ilen) * pow10(flen)
               + digitsValue(s, i0 + ilen + 1, flen)
  IN IF (ilen = 0 /\ flen = 0) \/ used < Len(s) THEN NaN
     ELSE Num(IF neg THEN 0 - mag ELSE mag, pow10(flen))

\* parseFloat: skip leading white space, optional sign, longest decimal prefix
parseFloat(str) ==
  LET s == trimStart(str)
      neg == s # <<>> /\ s[1] = "-"
      signed == s # <<>> /\ s[1] \in {"-", "+"}
      i0 == IF signed THEN 2 ELSE 1
      ilen == digitRun(s, i0)
      dot == i0 + ilen <= Len(s) /\ s[i0 + ilen] = "."
      flen == IF dot THEN digitRun(s, i0 + ilen + 1) ELSE 0
      mag == digitsValue(s, i0, ilen) * pow10(flen)
               + digitsValue(s, i0 + ilen + 1, flen)
  IN IF ilen = 0 /\ flen = 0 THEN NaN
     ELSE Num(IF neg THEN 0 - mag ELSE mag, pow10(flen))

\* mutant: the rule value of an inventory rule is parsed as a float
parseInt_asFloat(str) == parseFloat(str)

\* parseInt(str, 10): skip leading white space, optional sign, digit prefix
parseInt(str) ==
  LET s == trimStart(str)
      neg == s # <<>> /\ s[1] = "-"
      signed == s # <<>> /\ s[1] \in {"-", "+"}
      i0 == IF signed THEN 2 ELSE 1
      ilen == digitRun(s, i0)
      mag == digitsValue(s, i0, ilen)
  IN IF ilen = 0 THEN NaN ELSE Num(IF neg THEN 0 - mag ELSE mag, 1)

\* list membership and the insertion-ordered Set of JavaScript
Has(list, x) == \E i \in 1..Len(list) : list[i] = x

SetAdd(list, x) == IF Has(list, x) THEN list ELSE Append(list, x)

RECURSIVE NewSet(_)
NewSet(list) ==
  IF list = <<>> THEN <<>>
  ELSE SetAdd(NewSet(SubSeq(list, 1, Len(list) - 1)), list[Len(list)])

Elems(list) == {list[i] : i \in 1..Len(list)}

(***************************************************************************)
(* Rule Evaluator and Tag Merger (app/lib/productRules.server.ts).         *)
(***************************************************************************)
\* mutant: gt and lt accept equal numbers
compareNumeric_inclusive(actual, target, operator) ==
  CASE operator = "gt" -> actual.n * target.d >= target.n * actual.d
    [] operator = "lt" -> actual.n * target.d <= target.n * actual.d
    [] operator = "eq" -> actual.n * target.d = target.n * actual.d
    [] OTHER -> FALSE

compareNumeric(actual, target, operator) ==
  CASE operator = "gt" -> actual.n * target.d > target.n * actual.d
    [] operator = "lt" -> actual.n * target.d < target.n * actual.d
    [] operator = "eq" -> actual.n * target.d = target.n * actual.d
    [] OTHER -> FALSE

\* mutant: the null checks are missing, and null compares as 0 or ""
evaluateSingleRule_nullCoerced(product, rule) ==
  CASE rule.field = "price" ->
         LET target == parseFloat(rule.value)
         IN IF target = NaN THEN FALSE
            ELSE compareNumeric(IF product.price = NullRec THEN Num(0, 1)
                                ELSE product.price, target, rule.operator)
    [] rule.field = "inventory" ->
         LET target == parseInt(rule.value)
         IN IF target = NaN THEN FALSE
            ELSE compareNumeric(IF product.totalInventory = NullRec THEN Num(0, 1)
                                ELSE product.totalInventory, target, rule.operator)
    [] rule.field = "vendor" ->
         IF rule.operator # "eq" THEN FALSE
         ELSE toLowerCase(trim(IF product.vendor = NullStr THEN <<>> ELSE product.vendor))
                = toLowerCase(trim(rule.value))
    [] OTHER -> FALSE

evaluateSingleRule(product, rule) ==
  CASE rule.field = "price" ->
         IF product.price = NullRec THEN FALSE
         ELSE LET target == parseFloat(rule.value)
              IN IF target = NaN THEN FALSE
                 ELSE compareNumeric(product.price, target, rule.operator)
    [] rule.field = "inventory" ->
         IF product.totalInventory = NullRec THEN FALSE
         ELSE LET target == parseInt(rule.value)
              IN IF target = NaN THEN FALSE
                 ELSE compareNumeric(product.totalInventory, target, rule.operator)
    [] rule.field = "vendor" ->
         IF product.vendor = NullStr \/ product.vendor = <<>> THEN FALSE
         ELSE IF rule.operator # "eq" THEN FALSE
         ELSE toLowerCase(trim(product.vendor)) = toLowerCase(trim(rule.value))
    [] OTHER -> FALSE

\* mutant: the enabled flag is not looked at
RECURSIVE evaluateProductRules_noEnabledCheck(_, _)
evaluateProductRules_noEnabledCheck(product, rules) ==
  IF rules = <<>> THEN <<>>
  ELSE LET tags == evaluateProductRules_noEnabledCheck(product,
                     SubSeq(rules, 1, Len(rules) - 1))
           rule == rules[Len(rules)]
       IN IF evaluateSingleRule(product, rule) THEN SetAdd(tags, rule.tag)
          ELSE tags

\* mutant: the first matching rule decides, the rest is not looked at
RECURSIVE evaluateProductRules_firstMatch(_, _)
evaluateProductRules_firstMatch(product, rules) ==
  IF rules = <<>> THEN <<>>
  ELSE IF Head(rules).enabled /\ evaluateSingleRule(product, Head(rules))
       THEN <<Head(rules).tag>>
       ELSE evaluateProductRules_firstMatch(product, Tail(rules))

RECURSIVE evaluateProductRules(_, _)
evaluateProductRules(product, rules) ==
  IF rules = <<>> THEN <<>>
  ELSE LET tags == evaluateProductRules(product, SubSeq(rules, 1, Len(rules) - 1))
           rule == rules[Len(rules)]
       IN IF ~rule.enabled THEN tags
          ELSE IF evaluateSingleRule(product, rule) THEN SetAdd(tags, rule.tag)
          ELSE tags

\* mutant: the loop adds the tags but never sets changed
mergeLoop_unflagged(set, changed, ruleTags) ==
  [set |-> NewSet(set \o ruleTags), changed |-> changed]

RECURSIVE mergeLoop(_, _, _)
mergeLoop(set, changed, ruleTags) ==
  IF ruleTags = <<>> THEN [set |-> set, changed |-> changed]
  ELSE IF ~Has(set, Head(ruleTags))
       THEN mergeLoop(Append(set, Head(ruleTags)), TRUE, Tail(ruleTags))
       ELSE mergeLoop(set, changed, Tail(ruleTags))

\* mutant: the new tags are appended to the existing list as it came
mergeProductTags_appended(existingTags, ruleTags) ==
  LET r == mergeLoop(NewSet(existingTags), FALSE, ruleTags)
  IN IF r.changed
     THEN existingTags \o SubSeq(r.set, Len(NewSet(existingTags)) + 1, Len(r.set))
     ELSE NO_CHANGE

\* mutant: the set is not seeded with the existing tags
mergeProductTags_unseeded(existingTags, ruleTags) ==
  LET r == mergeLoop(<<>>, FALSE, ruleTags)
  IN IF r.changed THEN r.set ELSE NO_CHANGE

\* mutant: the list is returned whether or not anything changed
mergeProductTags_alwaysList(existingTags, ruleTags) ==
  mergeLoop(NewSet(existingTags), FALSE, ruleTags).set

mergeProductTags(existingTags, ruleTags) ==
  LET r == mergeLoop(NewSet(existingTags), FALSE, ruleTags)
  IN IF r.changed THEN r.set ELSE NO_CHANGE

(***************************************************************************)
(* Payload Mapper (app/webhooks/products.server.ts).                       *)
(***************************************************************************)
GidPrefix == "gid://shopify/Product/"

RECURSIVE sumInventory(_)
sumInventory(variants) ==
  IF variants = <<>> THEN 0
  ELSE LET v == variants[Len(variants)]
           qty == IF v.inventory_quantity = NullRec THEN 0 ELSE v.inventory_quantity.n
       IN sumInventory(SubSeq(variants, 1, Len(variants) - 1)) + qty

\* mutant: the empty pieces are not filtered out
trimNonEmpty_keepEmpty(pieces) == [i \in 1..Len(pieces) |-> trim(pieces[i])]

\* .map((tag) => tag.trim()).filter((tag) => tag.length > 0)
RECURSIVE trimNonEmpty(_)
trimNonEmpty(pieces) ==
  IF pieces = <<>> THEN <<>>
  ELSE LET t == trim(Head(pieces))
       IN IF Len(t) > 0 THEN <<t>> \o trimNonEmpty(Tail(pieces))
          ELSE trimNonEmpty(Tail(pieces))

\* mutant: the numeric id is used as it is
mapWebhookPayloadToProduct_rawId(payload) ==
  [shopifyProductId |-> <<payload.id>>,
   productForEvaluation |->
     [price |-> IF payload.variants # NullVariants /\ payload.variants # <<>>
                   /\ payload.variants[1].price # NullStr
                   /\ parseFloat(payload.variants[1].price) # NaN
                THEN parseFloat(payload.variants[1].price) ELSE NullRec,
      totalInventory |-> IF payload.variants = NullVariants THEN NullRec
                         ELSE Num(sumInventory(payload.variants), 1),
      vendor |-> payload.vendor],
   existingTags |-> IF payload.tags = NullStr THEN <<>>
                    ELSE trimNonEmpty(split(payload.tags))]

\* mutant: a missing or unparsable price counts as 0
mapWebhookPayloadToProduct_zeroPrice(payload) ==
  LET hasFirst == payload.variants # NullVariants /\ payload.variants # <<>>
      price == IF hasFirst /\ payload.variants[1].price # NullStr
               THEN parseFloat(payload.variants[1].price)
               ELSE Num(0, 1)
  IN [shopifyProductId |-> <<GidPrefix, payload.id>>,
      productForEvaluation |->
        [price |-> IF price = NaN THEN Num(0, 1) ELSE price,
         totalInventory |-> IF payload.variants = NullVariants THEN NullRec
                            ELSE Num(sumInventory(payload.variants), 1),
         vendor |-> payload.vendor],
      existingTags |-> IF payload.tags = NullStr THEN <<>>
                       ELSE trimNonEmpty(split(payload.tags))]

mapWebhookPayloadToProduct(payload) ==
  LET hasFirst == payload.variants # NullVariants /\ payload.variants # <<>>
      price == IF hasFirst /\ payload.variants[1].price # NullStr
               THEN parseFloat(payload.variants[1].price)
               ELSE NullRec
      totalInventory == IF payload.variants = NullVariants THEN NullRec
                        ELSE Num(sumInventory(payload.variants), 1)
      existingTags == IF payload.tags = NullStr THEN <<>>
                      ELSE trimNonEmpty(split(payload.tags))
  IN [shopifyProductId |-> <<GidPrefix, payload.id>>,
      productForEvaluation |->
        [price |-> IF price = NaN THEN NullRec ELSE price,
         totalInventory |-> totalInventory,
         vendor |-> payload.vendor],
      existingTags |-> existingTags]

(***************************************************************************)
(* Rule Applier, the synchronous part between loading the rules and the    *)
(* admin.graphql call: the productUpdate input, or NullRec when the        *)
(* function returns without a mutation.                                    *)
(***************************************************************************)
\* mutant: the NO_CHANGE short-circuit is missing
productUpdateInput_noShortCircuit(payload, rules) ==
  IF Len(rules) = 0 THEN NullRec
  ELSE LET m == mapWebhookPayloadToProduct(payload)
           ruleTags == evaluateProductRules(m.productForEvaluation, rules)
       IN IF Len(ruleTags) = 0 THEN NullRec
          ELSE LET mergedTags == mergeProductTags(m.existingTags, ruleTags)
               IN [id |-> m.shopifyProductId,
                   tags |-> IF mergedTags = NO_CHANGE THEN NewSet(m.existingTags)
                            ELSE mergedTags]

\* mutant: the product's tags are set to the rule-derived tags
productUpdateInput_sync(payload, rules) ==
  IF Len(rules) = 0 THEN NullRec
  ELSE LET m == mapWebhookPayloadToProduct(payload)
           ruleTags == evaluateProductRules(m.productForEvaluation, rules)
       IN IF Len(ruleTags) = 0 THEN NullRec
          ELSE LET mergedTags == mergeProductTags(m.existingTags, ruleTags)
               IN IF mergedTags = NO_CHANGE THEN NullRec
                  ELSE [id |-> m.shopifyProductId, tags |-> ruleTags]

productUpdateInput(payload, rules) ==
  IF Len(rules) = 0 THEN NullRec
  ELSE LET m == mapWebhookPayloadToProduct(payload)
           ruleTags == evaluateProductRules(m.productForEvaluation, rules)
       IN IF Len(ruleTags) = 0 THEN NullRec
          ELSE LET mergedTags == mergeProductTags(m.existingTags, ruleTags)
               IN IF mergedTags = NO_CHANGE THEN NullRec
                  ELSE [id |-> m.shopifyProductId, tags |-> mergedTags]

\* what follows the awaited response: response.json() throws on an
\* undecodable body; userErrors are logged and the function returns
\* mutant: userErrors are raised instead of logged
afterResponse_strict(resp) ==
  IF resp \in {"badjson", "userErrors"} THEN "throw" ELSE "return"

afterResponse(resp) ==
  IF resp = "badjson" THEN "throw" ELSE "return"

(***************************************************************************)
(* State.                                                                  *)
(***************************************************************************)
VARIABLES
  shopTable,   \* prisma.shop: shop domain -> record, or NullRec when absent
  ruleTable,   \* prisma.productRule: the rules in creation order
  store,       \* the product as the Shopify product store holds it
  notifs,      \* product notifications generated so far (deliverable, repeatedly)
  edits,       \* number of merchant edits made
  proc,        \* the webhook handler invocations
  calc,        \* inputs and results of direct calls of the pure functions
  settingTable, \* prisma.setting: the records [shopId, key, value]
  clock,       \* the time that new Date() returns
  install,     \* the shop's installation as Shopify and the merchant know it
  unin,        \* the app/uninstalled webhook handler invocations
  page         \* the settings page open in the merchant's browser

lifeVars == <<settingTable, clock, install, unin, page>>

vars == <<shopTable, ruleTable, store, notifs, edits, proc, calc, lifeVars>>

sysVars == <<shopTable, ruleTable, store, notifs, edits, proc, lifeVars>>

(***************************************************************************)
(* Strings used as inputs.                                                 *)
(***************************************************************************)
TagVip == <<"v", "i", "p">>
TagLow == <<"l", "o", "w">>
TagSale == <<"s", "a", "l", "e">>
TagPool == {TagVip, TagLow, TagSale}

Shops == {"s1", "s2"}
\* the shop whose product is modelled; only it installs and manages rules in Spec
ProductShops == {"s1"}
ShopIdOf(shopDomain) == IF shopDomain = "s1" THEN "id1" ELSE "id2"

Rule(id, shopId, field, operator, value, tag, enabled) ==
  [id |-> id, shopId |-> shopId, field |-> field, operator |-> operator,
   value |-> value, tag |-> tag, enabled |-> enabled]

(***************************************************************************)
(* Direct calls of the pure functions on bounded inputs.                   *)
(***************************************************************************)
TagLists == UNION {[1..n -> TagPool] : n \in 0..MaxTagListLen}

ProductInputs ==
  [price : {NullRec, Num(5, 1), Num(20, 1)},
   totalInventory : {NullRec, Num(3, 1)},
   vendor : {NullStr, <<"A", "c", "m", "e", " ">>}]

RuleForms ==
  { <<"price", "gt", <<"1", "0">>, TagVip, TRUE>>,
    <<"price", "lt", <<"1", "0">>, TagLow, TRUE>>,
    <<"price", "gt", <<"a", "b", "c">>, TagSale, TRUE>>,
    <<"price", "gt", <<"1", "0">>, TagSale, FALSE>>,
    <<"inventory", "lt", <<"5">>, TagLow, TRUE>>,
    <<"inventory", "eq", <<"3">>, TagVip, FALSE>>,
    <<"vendor", "eq", <<"a", "c", "m", "e">>, TagVip, TRUE>>,
    <<"vendor", "gt", <<"a", "c", "m", "e">>, TagSale, TRUE>> }

RuleLists ==
  UNION { { [i \in 1..n |-> Rule(i, "id1", f[i][1], f[i][2], f[i][3], f[i][4], f[i][5])]
            : f \in [1..n -> RuleForms] } : n \in 0..MaxRuleListLen }

NoProduct == [price |-> NullRec, totalInventory |-> NullRec, vendor |-> NullStr]

CalcIdle ==
  [mode |-> "none", step |-> "in", E |-> <<>>, R |-> <<>>, p |-> NoProduct,
   rules |-> <<>>, ruleTags |-> <<>>, M |-> NO_CHANGE, M2 |-> NO_CHANGE]

CalcInputs ==
  { [CalcIdle EXCEPT !.mode = "merge", !.E = e, !.R = r] : e \in TagLists, r \in TagLists }
  \cup
  { [CalcIdle EXCEPT !.mode = "apply", !.E = e, !.p = p, !.rules = rs]
      : e \in TagLists, p \in ProductInputs, rs \in RuleLists }

\* mergeProductTags(E, R) on arbitrary lists
PureMerge ==
  /\ calc.mode = "merge" /\ calc.step = "in"
  /\ calc' = [calc EXCEPT !.M = mergeProductTags(calc.E, calc.R), !.step = "merged"]
  /\ UNCHANGED sysVars

\* evaluateProductRules(p, rules)
PureEvaluate ==
  /\ calc.mode = "apply" /\ calc.step = "in"
  /\ calc' = [calc EXCEPT !.ruleTags = evaluateProductRules(calc.p, calc.rules),
                          !.step = "evaluated"]
  /\ UNCHANGED sysVars

\* mergeProductTags(E, evaluateProductRules(p, rules))
PureApply ==
  /\ calc.step = "evaluated"
  /\ calc' = [calc EXCEPT !.M = mergeProductTags(calc.E, calc.ruleTags),
                          !.step = "applied"]
  /\ UNCHANGED sysVars

\* the same evaluation merged into the previous result
PureReapply ==
  /\ calc.step = "applied" /\ calc.M # NO_CHANGE
  /\ calc' = [calc EXCEPT !.M2 = mergeProductTags(calc.M, calc.ruleTags),
                          !.step = "reapplied"]
  /\ UNCHANGED sysVars

(***************************************************************************)
(* Rule Store and shop records.                                            *)
(***************************************************************************)
\* mutant: findMany without the shopId filter
getRulesForShop_all(table, shopId) == table

RECURSIVE getRulesForShop(_, _)
getRulesForShop(table, shopId) ==
  IF table = <<>> THEN <<>>
  ELSE IF Head(table).shopId = shopId
       THEN <<Head(table)>> \o getRulesForShop(Tail(table), shopId)
       ELSE getRulesForShop(Tail(table), shopId)

createRuleForShop(table, shopId, data) ==
  Append(table, Rule(Len(table) + 1, shopId, data.field, data.operator,
                     data.value, data.tag, data.enabled))

\* mutant: disabling a rule deletes it
toggleRuleEnabled_deleteWhenDisabled(table, shopId, ruleId, enabled) ==
  IF enabled
  THEN [i \in 1..Len(table) |->
          IF table[i].id = ruleId /\ table[i].shopId = shopId
          THEN [table[i] EXCEPT !.enabled = TRUE]
          ELSE table[i]]
  ELSE SelectSeq(table, LAMBDA r : ~(r.id = ruleId /\ r.shopId = shopId))

\* mutant: updateMany where only the id is constrained
toggleRuleEnabled_byIdOnly(table, shopId, ruleId, enabled) ==
  [i \in 1..Len(table) |->
     IF table[i].id = ruleId
     THEN [table[i] EXCEPT !.enabled = enabled]
     ELSE table[i]]

toggleRuleEnabled(table, shopId, ruleId, enabled) ==
  [i \in 1..Len(table) |->
     IF table[i].id = ruleId /\ table[i].shopId = shopId
     THEN [table[i] EXCEPT !.enabled = enabled]
     ELSE table[i]]

\* formData.get(name) ?? "" for the text inputs of the form
TextOf(entry) == IF entry = NullStr THEN <<>> ELSE entry

\* mutant: the form's texts are validated and stored as typed
actionCreate_untrimmed(table, shop, form, dbOk) ==
  LET value == TextOf(form.value)
      tag == TextOf(form.tag)
  IN IF shop = NullRec THEN [table |-> table, result |-> "Shop not found"]
     ELSE IF form.field = "" \/ form.operator = "" \/ Len(value) = 0 \/ Len(tag) = 0
     THEN [table |-> table, result |-> "All fields are required."]
     ELSE IF ~dbOk
     THEN [table |-> table, result |-> "Failed to create rule. Please try again."]
     ELSE [table |-> createRuleForShop(table, shop.id,
                       [field |-> form.field, operator |-> form.operator,
                        value |-> value, tag |-> tag, enabled |-> TRUE]),
           result |-> "ok"]

\* product-rules action, intent "create": the shop lookup (404 when absent),
\* the validation of the form, and createRuleForShop, which stores the rule
\* or throws (dbOk); a missing field or operator is the empty string
actionCreate(table, shop, form, dbOk) ==
  LET value == trim(TextOf(form.value))
      tag == trim(TextOf(form.tag))
  IN IF shop = NullRec THEN [table |-> table, result |-> "Shop not found"]
     ELSE IF form.field = "" \/ form.operator = "" \/ Len(value) = 0 \/ Len(tag) = 0
     THEN [table |-> table, result |-> "All fields are required."]
     ELSE IF ~dbOk
     THEN [table |-> table, result |-> "Failed to create rule. Please try again."]
     ELSE [table |-> createRuleForShop(table, shop.id,
                       [field |-> form.field, operator |-> form.operator,
                        value |-> value, tag |-> tag, enabled |-> TRUE]),
           result |-> "ok"]

\* mutant: a re-install replaces the record
upsertShop_recreate(table, session, now) ==
  [table EXCEPT ![session.shop] =
     [id |-> ShopIdOf(session.shop), shopDomain |-> session.shop,
      accessToken |-> session.accessToken, installedAt |-> now,
      uninstalledAt |-> NullRec]]

\* prisma.shop.upsert of upsertShop; now is new Date()
upsertShop(table, session, now) ==
  IF table[session.shop] # NullRec
  THEN [table EXCEPT ![session.shop] =
          [@ EXCEPT !.accessToken = session.accessToken, !.uninstalledAt = NullRec]]
  ELSE [table EXCEPT ![session.shop] =
          [id |-> ShopIdOf(session.shop), shopDomain |-> session.shop,
           accessToken |-> session.accessToken, installedAt |-> now,
           uninstalledAt |-> NullRec]]

ShopData(shop) ==
  [shopDomain |-> shop.shopDomain, accessToken |-> shop.accessToken,
   installedAt |-> shop.installedAt]

\* getShop: null when the record is absent or uninstalledAt is truthy (a Date)
getShop(table, shopDomain) ==
  LET shop == table[shopDomain]
  IN IF shop = NullRec \/ shop.uninstalledAt # NullRec THEN NullRec ELSE ShopData(shop)

\* mutant: the record is deleted
markShopUninstalled_delete(table, shopDomain, now) ==
  [table EXCEPT ![shopDomain] = NullRec]

\* markShopUninstalled: prisma.shop.update of a record that exists
markShopUninstalled(table, shopDomain, now) ==
  [table EXCEPT ![shopDomain] = [@ EXCEPT !.uninstalledAt = now]]

isShopInstalled(table, shopDomain) ==
  LET shop == table[shopDomain]
  IN shop # NullRec /\ shop.uninstalledAt = NullRec

(***************************************************************************)
(* Settings store (lib/settings.server.ts).                                *)
(***************************************************************************)
Setting(shopId, key, value) == [shopId |-> shopId, key |-> key, value |-> value]

SettingExists(table, shopId, key) ==
  \E r \in table : r.shopId = shopId /\ r.key = key

\* getAllSettings: the shop's settings as a key/value object
getAllSettings(table, shopId) ==
  { [key |-> r.key, value |-> r.value] : r \in {x \in table : x.shopId = shopId} }

\* setSetting: prisma.setting.upsert on (shopId, key)
setSetting(table, shopId, key, value) ==
  {r \in table : ~(r.shopId = shopId /\ r.key = key)} \cup {Setting(shopId, key, value)}

\* deleteSetting: prisma.setting.delete of a record that exists (it throws
\* when there is none)
deleteSetting(table, shopId, key) ==
  {r \in table : ~(r.shopId = shopId /\ r.key = key)}

\* deleteAllSettings: prisma.setting.deleteMany where shopId
deleteAllSettings(table, shopId) == {r \in table : r.shopId # shopId}

\* action of the settings route: the shop lookup (404 when absent), the key
\* check, then deleteSetting (which throws when the key has no record) or
\* setSetting
settingsAction(table, shop, form) ==
  IF shop = NullRec THEN [table |-> table, result |-> "Shop not found"]
  ELSE IF form.key = NullStr \/ form.key = <<>> \/ trim(form.key) = <<>>
  THEN [table |-> table, result |-> "Setting key is required"]
  ELSE IF form.action = "delete"
  THEN IF SettingExists(table, shop.id, trim(form.key))
       THEN [table |-> deleteSetting(table, shop.id, trim(form.key)), result |-> "deleted"]
       ELSE [table |-> table, result |-> "throw"]
  ELSE [table |-> setSetting(table, shop.id, trim(form.key), TextOf(form.value)),
        result |-> "success"]

(***************************************************************************)
(* The product store and its notifications (the Shopify side).             *)
(***************************************************************************)
ProductId == 7

RECURSIVE joinTags(_)
joinTags(tags) ==
  IF tags = <<>> THEN <<>>
  ELSE IF Len(tags) = 1 THEN tags[1]
  ELSE tags[1] \o <<",", " ">> \o joinTags(Tail(tags))

Notification(topic, product) ==
  [shop |-> "s1", topic |-> topic,
   payload |-> [id |-> product.id, vendor |-> product.vendor,
                variants |-> product.variants, tags |-> joinTags(product.tags)]]

InitialProduct ==
  [id |-> ProductId, vendor |-> <<" ", "A", "c", "m", "e">>,
   variants |-> << [price |-> <<"2", "0">>, inventory_quantity |-> Num(3, 1)] >>,
   tags |-> <<>>]

RemoveTag(tags, t) == SelectSeq(tags, LAMBDA x : x # t)

\* what a merchant can do to the product in the Shopify admin
MerchantChanges(product) ==
  (IF Has(product.tags, TagSale) THEN {}
   ELSE { [product EXCEPT !.tags = Append(@, TagSale)] })
  \cup { [product EXCEPT !.tags = RemoveTag(@, t)] : t \in Elems(product.tags) }
  \cup { [product EXCEPT !.variants[1].price = pr]
           : pr \in {<<"5">>, <<"2", "0">>} \ {product.variants[1].price} }

\* productUpdate(input) as the store executes it: a full replace of the tags
productUpdate(product, input) ==
  IF input.id = <<GidPrefix, product.id>>
  THEN [product EXCEPT !.tags = input.tags]
  ELSE product

(***************************************************************************)
(* Inputs of the product-rules page.                                       *)
(***************************************************************************)
RuleFormInputs ==
  { [field |-> "price", operator |-> "gt", value |-> <<"1", "0">>, tag |-> <<" ", "v", "i", "p">>],
    [field |-> "vendor", operator |-> "eq", value |-> <<"a", "c", "m", "e", " ">>, tag |-> TagLow],
    [field |-> "price", operator |-> "lt", value |-> <<"1", "0">>, tag |-> <<" ">>] }

(***************************************************************************)
(* Initial state: empty database, one product in the store whose           *)
(* products/create notification is in flight.                              *)
(***************************************************************************)
Procs == 1..MaxProcs

ProcIdle ==
  [pc |-> "idle", notif |-> NullRec, rules |-> <<>>,
   req |-> NullRec, calls |-> 0, resp |-> "none", err |-> "none",
   thrown |-> FALSE, status |-> 0]

SettingKeys == {<<"k", "1">>, <<"k", "2">>}
SettingValues == {<<"a">>, <<"b">>}
Tokens == {"token", "token2"}

Deliveries == 1..MaxDeliveries

UninIdle ==
  [pc |-> "idle", event |-> 0, shopRecord |-> NullRec, threw |-> FALSE, status |-> 0]

PageClosed ==
  [open |-> FALSE, local |-> [k \in SettingKeys |-> NullStr], timer |-> [k \in SettingKeys |-> NullStr],
   deleted |-> {}, failed |-> {}]

\* nothing installed, no setting, no delivery, the page not opened
InitLife ==
  /\ settingTable = {}
  /\ clock = 0
  /\ install = [installed |-> FALSE, installs |-> 0, authed |-> FALSE,
                events |-> {}, saved |-> {}]
  /\ unin = [i \in Deliveries |-> UninIdle]
  /\ page = PageClosed

InitSys ==
  /\ shopTable = [s \in Shops |-> NullRec]
  /\ ruleTable = <<>>
  /\ store = InitialProduct
  /\ notifs = {Notification("products/create", InitialProduct)}
  /\ edits = 0
  /\ proc = [p \in Procs |-> ProcIdle]
  /\ InitLife

Init == InitSys /\ calc = CalcIdle

InitPure == InitSys /\ calc \in CalcInputs

(***************************************************************************)
(* Installation, rule management and merchant edits.                       *)
(***************************************************************************)
\* afterAuth hook: upsertShop(session)
AfterAuth(s) ==
  /\ shopTable' = upsertShop(shopTable, [shop |-> s, accessToken |-> "token"], Date(clock))
  /\ UNCHANGED <<ruleTable, store, notifs, edits, proc, calc, lifeVars>>

\* product-rules action, intent "create"
RuleCreate(s, form) ==
  /\ shopTable[s] # NullRec
  /\ Len(ruleTable) < MaxRules
  /\ ruleTable' = actionCreate(ruleTable, shopTable[s], form, TRUE).table
  /\ UNCHANGED <<shopTable, store, notifs, edits, proc, calc, lifeVars>>

\* product-rules action, intent "toggle"
RuleToggle(s, ruleId, enabled) ==
  /\ shopTable[s] # NullRec
  /\ ruleTable' = toggleRuleEnabled(ruleTable, shopTable[s].id, ruleId, enabled)
  /\ UNCHANGED <<shopTable, store, notifs, edits, proc, calc, lifeVars>>

\* the merchant edits the product; the store emits products/update
MerchantEdit ==
  /\ edits < MaxEdits
  /\ \E product \in MerchantChanges(store) :
       /\ store' = product
       /\ notifs' = notifs \cup {Notification("products/update", product)}
  /\ edits' = edits + 1
  /\ UNCHANGED <<shopTable, ruleTable, proc, calc, lifeVars>>


(***************************************************************************)
(* products/create and products/update webhook handlers.                   *)
(*                                                                         *)
(* An invocation reads shared state three times: the shop record, the      *)
(* rules, and (through the mutation) the product store.  Notifications     *)
(* are never withdrawn and shop records are never deleted, so the two      *)
(* database reads commute with every step of the other invocations and    *)
(* are taken in one step; the mutation is a step of its own, which is      *)
(* where the invocations race.  A prisma or graphql call either answers    *)
(* or throws, and an exception that leaves the route's action becomes a    *)
(* 500 response.  Invocations take the slots in order (they are            *)
(* interchangeable).  A finished invocation keeps its notification, rules  *)
(* and request as a record of what it did when it got as far as the        *)
(* decision and did not fail afterwards.                                   *)
(***************************************************************************)
Finish(p, status, err, thrown) ==
  proc' = [proc EXCEPT ![p].pc = "done", ![p].status = status,
                       ![p].err = err, ![p].thrown = thrown]

Failed(calls, resp, err) ==
  [ProcIdle EXCEPT !.pc = "done", !.calls = calls, !.resp = resp,
                   !.status = 500, !.err = err, !.thrown = TRUE]

NextSlot(p) ==
  /\ proc[p].pc = "idle"
  /\ \A q \in 1..(p - 1) : proc[q].pc # "idle"

\* action of the route: authenticate.webhook, prisma.shop.findUnique and
\* saveProductToDatabase (which writes the products table only), the admin
\* check, then applyProductRulesForShop up to the admin.graphql call
HandlerStart(p, n, admin) ==
  /\ NextSlot(p)
  /\ n \in notifs
  /\ IF ~admin THEN Finish(p, 200, "noAdmin", FALSE)
     ELSE LET shopRecord == shopTable[n.shop]
          IN IF shopRecord = NullRec
             THEN Finish(p, 200, "shopNotFound", FALSE)
             ELSE LET rules == getRulesForShop(ruleTable, shopRecord.id)
                      input == productUpdateInput(n.payload, rules)
                  IN IF input = NullRec
                     THEN proc' = [proc EXCEPT ![p].pc = "done", ![p].notif = n,
                                     ![p].rules = rules, ![p].status = 200]
                     ELSE proc' = [proc EXCEPT ![p].pc = "graphql", ![p].notif = n,
                                     ![p].rules = rules, ![p].req = input,
                                     ![p].calls = @ + 1]
  /\ UNCHANGED <<shopTable, ruleTable, store, notifs, edits, calc, lifeVars>>

\* prisma.shop.findUnique of the route throws
HandlerStartFails(p) ==
  /\ NextSlot(p)
  /\ Finish(p, 500, "handlerDb", FALSE)
  /\ UNCHANGED <<shopTable, ruleTable, store, notifs, edits, calc, lifeVars>>

\* prisma.shop.findUnique of applyProductRulesForShop throws
ApplyFindShopFails(p) ==
  /\ NextSlot(p)
  /\ proc' = [proc EXCEPT ![p] = Failed(0, "none", "shopLoad")]
  /\ UNCHANGED <<shopTable, ruleTable, store, notifs, edits, calc, lifeVars>>

\* getRulesForShop throws (the shop record was found)
ApplyLoadRulesFails(p, n) ==
  /\ NextSlot(p)
  /\ n \in notifs
  /\ shopTable[n.shop] # NullRec
  /\ proc' = [proc EXCEPT ![p] = Failed(0, "none", "rulesLoad")]
  /\ UNCHANGED <<shopTable, ruleTable, store, notifs, edits, calc, lifeVars>>

\* response.json(), the userErrors check and the route's Response
Respond(p, resp) ==
  IF afterResponse(resp) = "throw"
  THEN proc' = [proc EXCEPT ![p] = Failed(proc[p].calls, resp, "json")]
  ELSE IF resp = "userErrors"
  THEN proc' = [proc EXCEPT ![p] = [ProcIdle EXCEPT !.pc = "done", !.calls = proc[p].calls,
                                      !.resp = resp, !.status = 200]]
  ELSE proc' = [proc EXCEPT ![p].pc = "done", ![p].resp = resp, ![p].status = 200]

\* the store executes the mutation and answers without userErrors
GraphqlApplied(p) ==
  /\ proc[p].pc = "graphql"
  /\ store' = productUpdate(store, proc[p].req)
  /\ notifs' = notifs \cup {Notification("products/update", store')}
  /\ Respond(p, "ok")
  /\ UNCHANGED <<shopTable, ruleTable, edits, calc, lifeVars>>

\* the store refuses the input and answers with userErrors
GraphqlUserErrors(p) ==
  /\ proc[p].pc = "graphql"
  /\ Respond(p, "userErrors")
  /\ UNCHANGED <<shopTable, ruleTable, store, notifs, edits, calc, lifeVars>>

\* the answer is not JSON (a gateway error page); the request was not executed
GraphqlBadBody(p) ==
  /\ proc[p].pc = "graphql"
  /\ Respond(p, "badjson")
  /\ UNCHANGED <<shopTable, ruleTable, store, notifs, edits, calc, lifeVars>>

\* admin.graphql rejects (network failure, HTTP error); nothing was executed
GraphqlRejects(p) ==
  /\ proc[p].pc = "graphql"
  /\ proc' = [proc EXCEPT ![p] = Failed(proc[p].calls, "rejected", "graphql")]
  /\ UNCHANGED <<shopTable, ruleTable, store, notifs, edits, calc, lifeVars>>

Next ==
  \/ \E s \in ProductShops : AfterAuth(s)
  \/ \E s \in ProductShops, form \in RuleFormInputs : RuleCreate(s, form)
  \/ \E s \in ProductShops, ruleId \in 1..MaxRules, enabled \in BOOLEAN : RuleToggle(s, ruleId, enabled)
  \/ MerchantEdit
  \/ \E p \in Procs, n \in notifs, admin \in BOOLEAN : HandlerStart(p, n, admin)
  \/ \E p \in Procs : HandlerStartFails(p)
  \/ \E p \in Procs : ApplyFindShopFails(p)
  \/ \E p \in Procs, n \in notifs : ApplyLoadRulesFails(p, n)
  \/ \E p \in Procs : GraphqlApplied(p)
  \/ \E p \in Procs : GraphqlUserErrors(p)
  \/ \E p \in Procs : GraphqlBadBody(p)
  \/ \E p \in Procs : GraphqlRejects(p)

Spec == Init /\ [][Next]_vars

NextPure == PureMerge \/ PureEvaluate \/ PureApply \/ PureReapply

SpecPure == InitPure /\ [][NextPure]_vars

(***************************************************************************)
(* Direct calls of the rule store, the evaluator and the payload mapper    *)
(* on bounded inputs, one call per behaviour.                              *)
(***************************************************************************)
ShopIds == {ShopIdOf(s) : s \in Shops}

\* rule tables as create and toggle leave them: ids in creation order
RuleTables ==
  UNION { { [i \in 1..n |-> Rule(i, o[i], "price", "gt", <<"1", "0">>, TagVip, e[i])]
            : o \in [1..n -> ShopIds], e \in [1..n -> BOOLEAN] }
          : n \in 0..MaxRuleListLen }

ToggleCalls ==
  { [fn |-> "toggleRuleEnabled", step |-> "in", table |-> t, shopId |-> o,
     ruleId |-> r, enabled |-> e, out |-> <<>>]
      : t \in RuleTables, o \in ShopIds, r \in 1..(MaxRuleListLen + 1), e \in BOOLEAN }

CallToggle ==
  /\ calc.fn = "toggleRuleEnabled" /\ calc.step = "in"
  /\ calc' = [calc EXCEPT !.step = "out",
                          !.out = toggleRuleEnabled(calc.table, calc.shopId,
                                                    calc.ruleId, calc.enabled)]
  /\ UNCHANGED sysVars

\* rule values as the create action stores them (trimmed, not empty), each
\* with the number, the integer and the normalised text it stands for
ValueInputs ==
  { [text |-> <<"1", "0">>, num |-> Num(10, 1), int |-> Num(10, 1), core |-> <<"1", "0">>,
     numeral |-> "int"],
    [text |-> <<"9", ".", "5">>, num |-> Num(95, 10), int |-> Num(9, 1),
     core |-> <<"9", ".", "5">>, numeral |-> "decimal"],
    [text |-> <<"1", "0", ".", "0">>, num |-> Num(10, 1), int |-> Num(10, 1),
     core |-> <<"1", "0", ".", "0">>, numeral |-> "decimal"],
    [text |-> <<"5", ".", "9">>, num |-> Num(59, 10), int |-> Num(5, 1),
     core |-> <<"5", ".", "9">>, numeral |-> "decimal"],
    [text |-> <<"1", "2", "a", "b", "c">>, num |-> Num(12, 1), int |-> Num(12, 1),
     core |-> <<"1", "2", "a", "b", "c">>, numeral |-> "none"],
    [text |-> <<"a", "b", "c", "1", "2">>, num |-> NaN, int |-> NaN,
     core |-> <<"a", "b", "c", "1", "2">>, numeral |-> "none"],
    [text |-> <<"a", "b", "c">>, num |-> NaN, int |-> NaN, core |-> <<"a", "b", "c">>,
     numeral |-> "none"],
    [text |-> <<"A", "c", "m", "e">>, num |-> NaN, int |-> NaN,
     core |-> <<"a", "c", "m", "e">>, numeral |-> "none"] }

\* vendors of a payload, each with its normalised text
VendorInputs ==
  { [text |-> NullStr, core |-> NullStr],
    [text |-> <<>>, core |-> <<>>],
    [text |-> <<" ">>, core |-> <<>>],
    [text |-> <<"A", "c", "m", "e", " ">>, core |-> <<"a", "c", "m", "e">>],
    [text |-> <<" ", "a", "C", "M", "E">>, core |-> <<"a", "c", "m", "e">>],
    [text |-> <<"A", "B", "C">>, core |-> <<"a", "b", "c">>],
    [text |-> <<"a", "c", " ", "m", "e">>, core |-> <<"a", "c", " ", "m", "e">>] }

PriceInputs == {NullRec, Num(5, 1), Num(95, 10), Num(10, 1), Num(12, 1), Num(20, 1)}

InventoryInputs == {NullRec, Num(0, 1), Num(5, 1), Num(9, 1), Num(10, 1)}

Fields == {"price", "inventory", "vendor"}

Operators == {"gt", "lt", "eq"}

SingleRuleCalls ==
  { [fn |-> "evaluateSingleRule", step |-> "in",
     p |-> [price |-> pr, totalInventory |-> inv, vendor |-> ven.text],
     rule |-> Rule(1, "id1", f, op, val.text, TagVip, TRUE),
     vendor |-> ven, value |-> val, out |-> FALSE]
      : pr \in PriceInputs, inv \in InventoryInputs, ven \in VendorInputs,
        f \in Fields, op \in Operators, val \in ValueInputs }

CallSingleRule ==
  /\ calc.fn = "evaluateSingleRule" /\ calc.step = "in"
  /\ calc' = [calc EXCEPT !.step = "out", !.out = evaluateSingleRule(calc.p, calc.rule)]
  /\ UNCHANGED sysVars

\* rules of a batch: some share a tag, some are disabled, one has a value
\* that is no number; each with the reading of its value
BatchValue(text) == CHOOSE val \in ValueInputs : val.text = text

BatchForms ==
  { <<"price", "gt", <<"a", "b", "c">>, TagSale, TRUE>>,
    <<"price", "gt", <<"1", "0">>, TagVip, TRUE>>,
    <<"price", "lt", <<"1", "0">>, TagLow, TRUE>>,
    <<"price", "gt", <<"1", "0">>, TagSale, FALSE>>,
    <<"inventory", "eq", <<"9", ".", "5">>, TagLow, FALSE>>,
    <<"inventory", "lt", <<"1", "0">>, TagVip, TRUE>>,
    <<"vendor", "eq", <<"A", "c", "m", "e">>, TagVip, TRUE>>,
    <<"vendor", "gt", <<"A", "c", "m", "e">>, TagSale, TRUE>> }

BatchLists ==
  UNION { { [i \in 1..n |-> Rule(i, "id1", f[i][1], f[i][2], f[i][3], f[i][4], f[i][5])]
            : f \in [1..n -> BatchForms] } : n \in 0..MaxRuleListLen }

BatchCalls ==
  { [fn |-> "evaluateProductRules", step |-> "in",
     p |-> [price |-> pr, totalInventory |-> inv, vendor |-> ven.text],
     vendor |-> ven, rules |-> rs, out |-> <<>>]
      : pr \in {NullRec, Num(5, 1), Num(20, 1)}, inv \in {NullRec, Num(9, 1)},
        ven \in {v \in VendorInputs : v.text \in {NullStr, <<"A", "c", "m", "e", " ">>}},
        rs \in BatchLists }

CallEvaluate ==
  /\ calc.fn = "evaluateProductRules" /\ calc.step = "in"
  /\ calc' = [calc EXCEPT !.step = "out", !.out = evaluateProductRules(calc.p, calc.rules)]
  /\ UNCHANGED sysVars

\* price strings of a variant, each with the number it stands for (NullRec
\* when it is missing or is no number)
PriceTexts ==
  { [text |-> NullStr, num |-> NullRec],
    [text |-> <<>>, num |-> NullRec],
    [text |-> <<"a", "b", "c">>, num |-> NullRec],
    [text |-> <<"0">>, num |-> Num(0, 1)],
    [text |-> <<"2", "0">>, num |-> Num(20, 1)],
    [text |-> <<"9", ".", "5">>, num |-> Num(95, 10)] }

QuantityInputs == {NullRec, Num(1, 1), Num(2, 1)}

VariantInputs == [price : PriceTexts, qty : QuantityInputs]

VariantLists == UNION {[1..n -> VariantInputs] : n \in 0..MaxVariants}

\* pieces of a tags string, each with the tag it stands for (<<>>: none)
PieceInputs ==
  { [text |-> TagVip, core |-> TagVip],
    [text |-> <<" ">> \o TagVip, core |-> TagVip],
    [text |-> TagLow \o <<" ">>, core |-> TagLow],
    [text |-> <<>>, core |-> <<>>],
    [text |-> <<" ">>, core |-> <<>>] }

PieceLists == UNION {[1..n -> PieceInputs] : n \in 1..MaxPieces}

RECURSIVE joinPieces(_)
joinPieces(pieces) ==
  IF Len(pieces) = 1 THEN pieces[1].text
  ELSE pieces[1].text \o <<",">> \o joinPieces(Tail(pieces))

PayloadOf(hasVariants, variants, hasTags, pieces) ==
  [id |-> ProductId,
   vendor |-> NullStr,
   variants |-> IF hasVariants
                THEN [i \in 1..Len(variants) |->
                        [price |-> variants[i].price.text,
                         inventory_quantity |-> variants[i].qty]]
                ELSE NullVariants,
   tags |-> IF hasTags THEN joinPieces(pieces) ELSE NullStr]

MapCall(hasVariants, variants, hasTags, pieces) ==
  [fn |-> "mapWebhookPayloadToProduct", step |-> "in",
   payload |-> PayloadOf(hasVariants, variants, hasTags, pieces),
   hasVariants |-> hasVariants, variants |-> variants,
   hasTags |-> hasTags, pieces |-> pieces, out |-> NullRec]

MapCalls ==
  { MapCall(TRUE, vs, FALSE, <<>>) : vs \in VariantLists }
  \cup { MapCall(FALSE, <<>>, FALSE, <<>>) }
  \cup { MapCall(FALSE, <<>>, TRUE, ps) : ps \in PieceLists }

CallMap ==
  /\ calc.fn = "mapWebhookPayloadToProduct" /\ calc.step = "in"
  /\ calc' = [calc EXCEPT !.step = "out", !.out = mapWebhookPayloadToProduct(calc.payload)]
  /\ UNCHANGED sysVars

\* applyProductRulesForShop up to the request, on payloads with and without
\* price and inventory data
ApplyVariantLists ==
  { <<>>,
    << [price |-> [text |-> NullStr, num |-> NullRec], qty |-> Num(2, 1)] >>,
    << [price |-> [text |-> <<"a", "b", "c">>, num |-> NullRec], qty |-> NullRec] >>,
    << [price |-> [text |-> <<>>, num |-> NullRec], qty |-> Num(2, 1)] >>,
    << [price |-> [text |-> <<"2", "0">>, num |-> Num(20, 1)], qty |-> Num(2, 1)] >> }

ApplyCall(hasVariants, variants, rules) ==
  [fn |-> "applyProductRulesForShop", step |-> "in",
   payload |-> PayloadOf(hasVariants, variants, FALSE, <<>>),
   hasVariants |-> hasVariants, variants |-> variants, rules |-> rules, out |-> NullRec]

ApplyCalls ==
  { ApplyCall(TRUE, vs, rs) : vs \in ApplyVariantLists, rs \in BatchLists }
  \cup { ApplyCall(FALSE, <<>>, rs) : rs \in BatchLists }

CallApply ==
  /\ calc.fn = "applyProductRulesForShop" /\ calc.step = "in"
  /\ calc' = [calc EXCEPT !.step = "out", !.out = productUpdateInput(calc.payload, calc.rules)]
  /\ UNCHANGED sysVars

\* the same call twice, the second time on reordered lists
Perms(n) == {f \in [1..n -> 1..n] : \A i, j \in 1..n : f[i] = f[j] => i = j}

\* the list in the order that f gives to its positions (f permutes more
\* positions than a shorter list has; those are passed over)
Reorder(list, f) ==
  LET order == SelectSeq([i \in 1..Len(f) |-> f[i]], LAMBDA k : k <= Len(list))
  IN [i \in 1..Len(list) |-> list[order[i]]]

EvaluateTwiceCalls ==
  { [fn |-> "evaluateProductRules twice", step |-> "in",
     p |-> [price |-> pr, totalInventory |-> inv, vendor |-> ven],
     rules |-> rs, rules2 |-> Reorder(rs, f), out |-> <<>>, out2 |-> <<>>]
      : pr \in {NullRec, Num(5, 1), Num(20, 1)}, inv \in {NullRec, Num(9, 1)},
        ven \in {NullStr, <<"A", "c", "m", "e", " ">>},
        rs \in BatchLists, f \in Perms(MaxRuleListLen) }

MergeTwiceCalls ==
  { [fn |-> "mergeProductTags twice", step |-> "in",
     E |-> e, R |-> r, E2 |-> Reorder(e, f), R2 |-> Reorder(r, g),
     out |-> NO_CHANGE, out2 |-> NO_CHANGE]
      : e \in TagLists, r \in TagLists,
        f \in Perms(MaxTagListLen), g \in Perms(MaxTagListLen) }

CallEvaluateTwice ==
  /\ calc.fn = "evaluateProductRules twice" /\ calc.step = "in"
  /\ calc' = [calc EXCEPT !.step = "out",
                          !.out = evaluateProductRules(calc.p, calc.rules),
                          !.out2 = evaluateProductRules(calc.p, calc.rules2)]
  /\ UNCHANGED sysVars

CallMergeTwice ==
  /\ calc.fn = "mergeProductTags twice" /\ calc.step = "in"
  /\ calc' = [calc EXCEPT !.step = "out",
                          !.out = mergeProductTags(calc.E, calc.R),
                          !.out2 = mergeProductTags(calc.E2, calc.R2)]
  /\ UNCHANGED sysVars

\* texts typed into the value and tag inputs of the form, each with the text
\* it stands for once the surrounding white space is removed
FormTexts ==
  { [text |-> NullStr, core |-> <<>>],
    [text |-> <<>>, core |-> <<>>],
    [text |-> <<" ">>, core |-> <<>>],
    [text |-> TagVip, core |-> TagVip],
    [text |-> <<" ", "v", "i", "p">>, core |-> TagVip],
    [text |-> <<"v", "i", "p", " ">>, core |-> TagVip],
    [text |-> <<"a", ",", "b">>, core |-> <<"a", ",", "b">>] }

ShopRecord(s) ==
  [id |-> ShopIdOf(s), shopDomain |-> s, accessToken |-> "token", installedAt |-> Date(0),
   uninstalledAt |-> NullRec]

CreateCalls ==
  { [fn |-> "actionCreate", step |-> "in", table |-> t, shop |-> sh,
     form |-> [field |-> f, operator |-> o, value |-> v.text, tag |-> g.text],
     value |-> v, tag |-> g, dbOk |-> ok,
     out |-> [table |-> <<>>, result |-> "none"]]
      : t \in {x \in RuleTables : Len(x) <= 1},
        sh \in {NullRec} \cup {ShopRecord(x) : x \in Shops},
        f \in {"", "price", "title"}, o \in {"", "gt"},
        v \in FormTexts, g \in FormTexts, ok \in BOOLEAN }

CallCreate ==
  /\ calc.fn = "actionCreate" /\ calc.step = "in"
  /\ calc' = [calc EXCEPT !.step = "out",
                          !.out = actionCreate(calc.table, calc.shop, calc.form, calc.dbOk)]
  /\ UNCHANGED sysVars

\* the rules of shop s1 after the create action has accepted the forms
CreatedRules(forms) ==
  LET first == actionCreate(<<>>, ShopRecord("s1"), forms[1], TRUE).table
  IN IF Len(forms) = 1 THEN first
     ELSE actionCreate(first, ShopRecord("s1"), forms[2], TRUE).table

LoopForms ==
  { [field |-> "price", operator |-> o, value |-> <<"1", "0">>, tag |-> g.text]
      : o \in {"gt", "lt"}, g \in FormTexts }

\* a products/update notification of the product is processed, the store
\* executes the mutation, and the notification it then emits is processed
LoopCalls ==
  { [fn |-> "feedback", step |-> "in",
     product |-> [InitialProduct EXCEPT !.tags = e],
     rules |-> CreatedRules(fs), req |-> NullRec, again |-> NullRec]
      : e \in {x \in TagLists : Len(x) <= 1},
        fs \in {<<f>> : f \in LoopForms}
                \cup {<<f, [f EXCEPT !.tag = TagLow]>> : f \in LoopForms} }

\* the handler on the product's notification; the store executes the request
CallFeedbackApply ==
  /\ calc.fn = "feedback" /\ calc.step = "in"
  /\ LET n == Notification("products/update", calc.product)
         input == productUpdateInput(n.payload, calc.rules)
     IN calc' = [calc EXCEPT
                   !.step = "applied", !.req = input,
                   !.product = IF input = NullRec THEN @ ELSE productUpdate(@, input)]
  /\ UNCHANGED sysVars

\* the handler on the notification that the executed mutation caused
CallFeedbackAgain ==
  /\ calc.fn = "feedback" /\ calc.step = "applied" /\ calc.req # NullRec
  /\ LET n == Notification("products/update", calc.product)
     IN calc' = [calc EXCEPT !.step = "again",
                             !.again = productUpdateInput(n.payload, calc.rules)]
  /\ UNCHANGED sysVars

FnCalls ==
  ToggleCalls \cup SingleRuleCalls \cup BatchCalls \cup MapCalls \cup ApplyCalls
    \cup EvaluateTwiceCalls \cup MergeTwiceCalls \cup CreateCalls
    \cup LoopCalls

InitFns == InitSys /\ calc \in FnCalls

NextFns ==
  \/ CallToggle \/ CallSingleRule \/ CallEvaluate \/ CallMap \/ CallApply
  \/ CallEvaluateTwice \/ CallMergeTwice
  \/ CallCreate
  \/ CallFeedbackApply \/ CallFeedbackAgain

SpecFns == InitFns /\ [][NextFns]_vars

(***************************************************************************)
(* Two shops.  Both install the app and manage rules; a product            *)
(* notification of either shop is delivered and handled up to the          *)
(* productUpdate request (each shop has a product store of its own, which  *)
(* the request of its handler addresses).                                  *)
(***************************************************************************)
TenantNotifs ==
  { [Notification("products/create", InitialProduct) EXCEPT !.shop = s] : s \in Shops }

InitTenant ==
  /\ shopTable = [s \in Shops |-> NullRec]
  /\ ruleTable = <<>>
  /\ store = InitialProduct
  /\ notifs = TenantNotifs
  /\ edits = 0
  /\ proc = [p \in Procs |-> ProcIdle]
  /\ calc = CalcIdle
  /\ InitLife

NextTenant ==
  \/ \E s \in Shops : AfterAuth(s)
  \/ \E s \in Shops, form \in RuleFormInputs : RuleCreate(s, form)
  \/ \E s \in Shops, ruleId \in 1..MaxRules, enabled \in BOOLEAN : RuleToggle(s, ruleId, enabled)
  \/ \E n \in notifs, admin \in BOOLEAN : HandlerStart(1, n, admin)

SpecTenant == InitTenant /\ [][NextTenant]_vars

(***************************************************************************)
(* Installation lifecycle of one shop: the merchant installs and           *)
(* uninstalls the app, OAuth runs the afterAuth hook, settings are saved,  *)
(* and Shopify delivers each app/uninstalled notification at least once,   *)
(* at any later time.  The handler awaits three database operations, each  *)
(* of which answers or throws; the other actors run between them.          *)
(***************************************************************************)
LifeShop == "s1"

lifeRest == <<ruleTable, store, notifs, edits, proc, calc, page>>

\* the merchant installs the app in the Shopify admin, later than anything
\* they did before
MerchantInstall ==
  /\ ~install.installed
  /\ install.installs < MaxInstalls
  /\ install' = [install EXCEPT !.installed = TRUE, !.installs = @ + 1,
                                !.authed = FALSE, !.saved = {}]
  /\ clock' = clock + 1
  /\ UNCHANGED <<shopTable, settingTable, unin, lifeRest>>

\* afterAuth hook of an OAuth round of the installed shop: upsertShop(session)
AfterAuthToken(tok) ==
  /\ install.installed
  /\ shopTable' = upsertShop(shopTable, [shop |-> LifeShop, accessToken |-> tok], Date(clock))
  /\ install' = [install EXCEPT !.authed = TRUE]
  /\ UNCHANGED <<settingTable, clock, unin, lifeRest>>

\* the merchant uninstalls the app, later again; Shopify emits app/uninstalled
MerchantUninstall ==
  /\ install.installed
  /\ install' = [install EXCEPT !.installed = FALSE, !.authed = FALSE,
                                !.events = @ \cup {install.installs}]
  /\ clock' = clock + 1
  /\ UNCHANGED <<shopTable, settingTable, unin, lifeRest>>

\* settings action with a key and a value, from a session of the installed shop
SettingSave(key, value) ==
  /\ install.installed
  /\ shopTable[LifeShop] # NullRec
  /\ settingTable' = settingsAction(settingTable, shopTable[LifeShop],
                                    [key |-> key, value |-> value, action |-> NullStr]).table
  /\ install' = [install EXCEPT !.saved = @ \cup {key}]
  /\ UNCHANGED <<shopTable, clock, unin, lifeRest>>

NextDelivery(i) ==
  /\ unin[i].pc = "idle"
  /\ \A j \in 1..(i - 1) : unin[j].pc # "idle"

\* the catch block and the Response of the handler
Caught(i) ==
  unin' = [unin EXCEPT ![i].pc = "done", ![i].threw = TRUE, ![i].status = 200]

\* app/uninstalled handler: authenticate.webhook and prisma.shop.findUnique
\* (of the record, only the id is read afterwards)
UninstallFind(i, e) ==
  /\ NextDelivery(i)
  /\ e \in install.events
  /\ LET shopRecord == shopTable[LifeShop]
     IN IF shopRecord = NullRec
        THEN unin' = [unin EXCEPT ![i].pc = "done", ![i].event = e, ![i].status = 200]
        ELSE unin' = [unin EXCEPT ![i].pc = "found", ![i].event = e,
                                  ![i].shopRecord = [id |-> shopRecord.id]]
  /\ UNCHANGED <<shopTable, settingTable, clock, install, lifeRest>>

\* prisma.shop.findUnique throws
UninstallFindThrows(i, e) ==
  /\ NextDelivery(i)
  /\ e \in install.events
  /\ unin' = [unin EXCEPT ![i].pc = "done", ![i].event = e, ![i].threw = TRUE,
                          ![i].status = 200]
  /\ UNCHANGED <<shopTable, settingTable, clock, install, lifeRest>>

\* await markShopUninstalled(shop)
UninstallMark(i) ==
  /\ unin[i].pc = "found"
  /\ shopTable' = markShopUninstalled(shopTable, LifeShop, Date(clock))
  /\ unin' = [unin EXCEPT ![i].pc = "marked"]
  /\ UNCHANGED <<settingTable, clock, install, lifeRest>>

\* markShopUninstalled throws
UninstallMarkThrows(i) ==
  /\ unin[i].pc = "found"
  /\ Caught(i)
  /\ UNCHANGED <<shopTable, settingTable, clock, install, lifeRest>>

\* await deleteAllSettings(shopRecord.id), then the Response
UninstallDeleteSettings(i) ==
  /\ unin[i].pc = "marked"
  /\ settingTable' = deleteAllSettings(settingTable, unin[i].shopRecord.id)
  /\ unin' = [unin EXCEPT ![i].pc = "done", ![i].status = 200]
  /\ UNCHANGED <<shopTable, clock, install, lifeRest>>

\* deleteAllSettings throws
UninstallDeleteThrows(i) ==
  /\ unin[i].pc = "marked"
  /\ Caught(i)
  /\ UNCHANGED <<shopTable, settingTable, clock, install, lifeRest>>

NextLifecycle ==
  \/ MerchantInstall
  \/ \E tok \in Tokens : AfterAuthToken(tok)
  \/ MerchantUninstall
  \/ \E value \in SettingValues : SettingSave(<<"k", "1">>, value)
  \/ \E i \in Deliveries, e \in 1..MaxInstalls : UninstallFind(i, e)
  \/ \E i \in Deliveries, e \in 1..MaxInstalls : UninstallFindThrows(i, e)
  \/ \E i \in Deliveries : UninstallMark(i)
  \/ \E i \in Deliveries : UninstallMarkThrows(i)
  \/ \E i \in Deliveries : UninstallDeleteSettings(i)
  \/ \E i \in Deliveries : UninstallDeleteThrows(i)

SpecLifecycle == Init /\ [][NextLifecycle]_vars

(***************************************************************************)
(* The settings page of the installed shop.  A change of a setting is      *)
(* saved by a timer one second later; a timer that is pending has been      *)
(* scheduled less than a second ago.  A submission is handled by the        *)
(* route's action before the page does anything else.  deleted and failed   *)
(* record the keys the merchant deleted (and has not typed again) and the   *)
(* deletions that the action failed to carry out.                           *)
(***************************************************************************)
pageRest == <<shopTable, ruleTable, store, notifs, edits, proc, calc, clock, install, unin>>

LocalSettings(table, shopId) ==
  [k \in SettingKeys |->
     IF SettingExists(table, shopId, k)
     THEN (CHOOSE r \in table : r.shopId = shopId /\ r.key = k).value
     ELSE NullStr]

\* loader and first render: the shop's settings, no timer
PageLoad ==
  /\ shopTable[LifeShop] # NullRec
  /\ page' = [PageClosed EXCEPT
                !.open = TRUE,
                !.local = LocalSettings(settingTable, shopTable[LifeShop].id)]
  /\ UNCHANGED <<settingTable, pageRest>>

\* handleSettingChange(key, value), also as called by handleAddSetting for a
\* key the page does not show: the timer of the key is replaced
handleSettingChange(key, value) ==
  /\ page.open
  /\ page' = [page EXCEPT !.local[key] = value, !.timer[key] = value,
                          !.deleted = @ \ {key}, !.failed = @ \ {key}]
  /\ UNCHANGED <<settingTable, pageRest>>

\* the timer of the key fires: fetcher.submit of the key and the value
TimerFires(key) ==
  /\ page.open
  /\ page.timer[key] # NullStr
  /\ settingTable' = settingsAction(settingTable, shopTable[LifeShop],
                                    [key |-> key, value |-> page.timer[key],
                                     action |-> NullStr]).table
  /\ page' = [page EXCEPT !.timer[key] = NullStr]
  /\ UNCHANGED pageRest

\* handleDeleteSetting(key): fetcher.submit of the deletion, the key removed
\* from the page's settings; the key's timer is left as it is
handleDeleteSetting(key) ==
  /\ page.open
  /\ page.local[key] # NullStr
  /\ LET answer == settingsAction(settingTable, shopTable[LifeShop],
                                  [key |-> key, value |-> NullStr, action |-> "delete"])
     IN /\ settingTable' = answer.table
        /\ page' = [page EXCEPT
                      !.local[key] = NullStr,
                      !.deleted = @ \cup {key},
                      !.failed = IF answer.result = "throw" THEN @ \cup {key} ELSE @]
  /\ UNCHANGED pageRest

NextSettings ==
  \/ AfterAuth(LifeShop)
  \/ PageLoad
  \/ \E key \in SettingKeys, value \in SettingValues : handleSettingChange(key, value)
  \/ \E key \in SettingKeys : TimerFires(key)
  \/ \E key \in SettingKeys : handleDeleteSetting(key)

SpecSettings == Init /\ [][NextSettings]_vars

TypeOK ==
  /\ \A p \in Procs : proc[p].calls \in 0..1
  /\ edits \in 0..MaxEdits
  /\ Len(ruleTable) <= MaxRules
  /\ install.installs \in 0..MaxInstalls
  /\ clock \in 0..(2 * MaxInstalls)
  /\ \A i \in Deliveries : unin[i].status \in {0, 200}
  /\ \A r \in settingTable : r.key \in SettingKeys /\ r.value \in SettingValues

(***************************************************************************)
(* Properties.                                                             *)
(***************************************************************************)
\* the invocations that reached the decision, with what they saw
Decided(p) == proc[p].notif # NullRec

Existing(p) == mapWebhookPayloadToProduct(proc[p].notif.payload).existingTags

Derived(p) ==
  evaluateProductRules(
    mapWebhookPayloadToProduct(proc[p].notif.payload).productForEvaluation,
    proc[p].rules)

Issued(p) == proc[p].req # NullRec

\* C1: mergeProductTags(E, R) is NO_CHANGE or a list that contains every
\* tag of E.
C1_NonDestructiveMerge ==
  calc.step = "merged" =>
    \/ calc.M = NO_CHANGE
    \/ \A t \in Elems(calc.E) : Has(calc.M, t)

C1_Witness ==
  /\ calc.step = "merged"
  /\ calc.M # NO_CHANGE
  /\ Elems(calc.E) \ Elems(calc.R) # {}

\* C2 (as claimed): a mutation executed by the store removes no tag of the
\* stored product except tags that an earlier Applier mutation added.
ApplierAdded ==
  UNION { Elems(proc[p].req.tags) \ Elems(Existing(p))
            : p \in {q \in Procs : proc[q].pc = "done" /\ Issued(q) /\ proc[q].resp = "ok"} }

C2_NeverRemovesForeignTag ==
  [][\A p \in Procs :
       (proc[p].pc = "graphql" /\ proc'[p].pc = "done" /\ proc'[p].resp = "ok")
         => \A t \in Elems(store.tags) : Has(store'.tags, t) \/ t \in ApplierAdded]_vars

\* C3 (as claimed): two deliveries of the same payload under the same rules
\* never both issue a mutation.
C3_AtMostOneWritePerPayload ==
  \A p, q \in Procs :
    (p # q /\ Issued(p) /\ Issued(q) /\ proc[p].rules = proc[q].rules)
      => proc[p].notif # proc[q].notif

\* C3 (amended): once the change is visible in the payload there is no
\* redundant write: a notification of the same product attributes whose
\* existing tags contain the whole tag list of an earlier mutation issues no
\* mutation when it is processed under the same rules.
SameAttributes(a, b) ==
  /\ a.id = b.id
  /\ a.vendor = b.vendor
  /\ a.variants = b.variants

Reflects(q, p) ==
  /\ p # q
  /\ Issued(p)
  /\ Decided(q)
  /\ proc[q].rules = proc[p].rules
  /\ SameAttributes(proc[q].notif.payload, proc[p].notif.payload)
  /\ Elems(proc[p].req.tags) \subseteq Elems(Existing(q))

C3_NoWriteOnceVisible ==
  \A p, q \in Procs : Reflects(q, p) => ~Issued(q) /\ proc[q].calls = 0

C3_Witness ==
  \E p, q \in Procs : Reflects(q, p) /\ proc[q].pc = "done" /\ proc[p].resp = "ok"

\* C4: when M = mergeProductTags(E, evaluateProductRules(p, rules)) is a
\* list, merging the same evaluation into M gives NO_CHANGE.
C4_Idempotence ==
  calc.step = "reapplied" => calc.M2 = NO_CHANGE

C4_Witness ==
  /\ calc.step = "reapplied"
  /\ calc.M # NO_CHANGE
  /\ Len(calc.E) > 0

\* C5: an invocation issues at most one mutation, and its request names the
\* canonical id of the payload's product and carries every existing tag of
\* the payload together with every rule-derived tag.
C5_OneFullReplace ==
  \A p \in Procs :
    /\ proc[p].calls <= 1
    /\ Issued(p) =>
         /\ proc[p].calls = 1
         /\ proc[p].req.id = <<"gid://shopify/Product/", proc[p].notif.payload.id>>
         /\ Elems(proc[p].req.tags) = Elems(Existing(p)) \cup Elems(Derived(p))

C5_Witness ==
  \E p \in Procs :
    /\ Issued(p)
    /\ Existing(p) # <<>>
    /\ Elems(Derived(p)) \ Elems(Existing(p)) # {}

\* C6: a mutation is issued exactly when some rule-derived tag is not among
\* the payload's existing tags (so none with no rule, no enabled matching
\* rule, or all derived tags present).
C6_WriteIffNewTag ==
  \A p \in Procs :
    Decided(p) =>
      (proc[p].calls = 1 <=> Elems(Derived(p)) \ Elems(Existing(p)) # {})

C6_Witness ==
  \E p, q \in Procs :
    /\ Decided(p) /\ proc[p].pc = "done" /\ proc[p].calls = 0
    /\ Derived(p) # <<>>
    /\ Decided(q) /\ proc[q].calls = 1

\* C7 (as claimed): when loading the shop record or the rules fails, or the
\* shop is not found, no mutation is issued, no exception leaves
\* applyProductRulesForShop, and the handler answers 200.
C7_RuleStoreFailureIsSkip ==
  \A p \in Procs :
    (proc[p].pc = "done" /\ proc[p].err \in {"shopLoad", "rulesLoad", "shopNotFound"})
      => /\ proc[p].calls = 0
         /\ ~proc[p].thrown
         /\ proc[p].status = 200

\* C8: after a response with userErrors the invocation has issued exactly
\* one mutation, returns normally, and the handler answers 200.
C8_UserErrorsAreLogged ==
  \A p \in Procs :
    (proc[p].pc = "done" /\ proc[p].resp = "userErrors")
      => /\ proc[p].calls = 1
         /\ ~proc[p].thrown
         /\ proc[p].status = 200

C8_Witness ==
  \E p \in Procs : proc[p].pc = "done" /\ proc[p].resp = "userErrors"

\* C9 (as claimed): when admin.graphql or the decoding of its response
\* fails, no exception leaves applyProductRulesForShop and the handler
\* answers 200.
C9_MutationFailureIsAbsorbed ==
  \A p \in Procs :
    (proc[p].pc = "done" /\ proc[p].resp \in {"rejected", "badjson"})
      => /\ ~proc[p].thrown
         /\ proc[p].status = 200

\* C10: no mutation drops a tag that the notification carries, whatever
\* happened to the rule that once applied it.
C10_NeverRetracts ==
  \A p \in Procs :
    Issued(p) => \A t \in Elems(Existing(p)) : Has(proc[p].req.tags, t)

\* a notification carries the tag of a rule that is now disabled, and the
\* mutation issued for it (another rule matched) still has the tag
C10_Witness ==
  \E p \in Procs :
    /\ Issued(p)
    /\ \E i \in 1..Len(proc[p].rules) :
         /\ ~proc[p].rules[i].enabled
         /\ Has(Existing(p), proc[p].rules[i].tag)
         /\ Has(proc[p].req.tags, proc[p].rules[i].tag)
         /\ \E q \in Procs : q # p /\ proc[q].resp = "ok" /\ Issued(q)
                              /\ Has(proc[q].req.tags, proc[p].rules[i].tag)
                              /\ ~Has(Existing(q), proc[p].rules[i].tag)

\* C11: the rules an invocation for shop S loads are exactly the rules of
\* the table whose shopId is S's id, every tag of its request is an existing
\* tag of the payload or the tag of a rule of S, and a rule created or
\* toggled by another shop leaves what S's notifications lead to unchanged.
OwnRules(table, shopId) == SelectSeq(table, LAMBDA r : r.shopId = shopId)

Outcome(table, s) ==
  [n \in {m \in notifs : m.shop = s} |->
     productUpdateInput(n.payload, getRulesForShop(table, shopTable[s].id))]

C11_LoadsOwnRulesOnly ==
  \A p \in Procs :
    (proc[p].pc = "idle" /\ proc'[p].notif # NullRec)
      => LET shopId == shopTable[proc'[p].notif.shop].id
             existing == mapWebhookPayloadToProduct(proc'[p].notif.payload).existingTags
         IN /\ proc'[p].rules = OwnRules(ruleTable, shopId)
            /\ proc'[p].req # NullRec =>
                 \A t \in Elems(proc'[p].req.tags) :
                   \/ Has(existing, t)
                   \/ \E i \in 1..Len(ruleTable) :
                        ruleTable[i].shopId = shopId /\ ruleTable[i].tag = t

C11_OtherShopHasNoEffect ==
  \A s \in Shops, t \in Shops :
    (/\ s # t
     /\ shopTable[s] # NullRec
     /\ \/ \E form \in RuleFormInputs : RuleCreate(t, form)
        \/ \E ruleId \in 1..MaxRules, enabled \in BOOLEAN : RuleToggle(t, ruleId, enabled))
      => Outcome(ruleTable', s) = Outcome(ruleTable, s)

C11_TenantIsolation ==
  [][C11_LoadsOwnRulesOnly /\ C11_OtherShopHasNoEffect]_vars

\* a request was issued for one shop while the other shop owns an enabled
\* rule that matches the same payload and whose tag the request lacks
C11_Witness ==
  \E p \in Procs :
    /\ Decided(p) /\ Issued(p)
    /\ \E i \in 1..Len(ruleTable) :
         /\ ruleTable[i].shopId # shopTable[proc[p].notif.shop].id
         /\ ruleTable[i].enabled
         /\ evaluateSingleRule(
              mapWebhookPayloadToProduct(proc[p].notif.payload).productForEvaluation,
              ruleTable[i])
         /\ ~Has(proc[p].req.tags, ruleTable[i].tag)

\* C12: toggleRuleEnabled(shopId, ruleId, enabled) sets the enabled flag of
\* the rule with that id and that shopId and changes nothing else; when no
\* rule has both, the table is unchanged.
Targets(table, shopId, ruleId) ==
  {i \in 1..Len(table) : table[i].id = ruleId /\ table[i].shopId = shopId}

C12_ToggleFrame ==
  (calc.fn = "toggleRuleEnabled" /\ calc.step = "out") =>
    LET hit == Targets(calc.table, calc.shopId, calc.ruleId)
    IN /\ Len(calc.out) = Len(calc.table)
       /\ \A i \in 1..Len(calc.table) :
            /\ [calc.out[i] EXCEPT !.enabled = calc.table[i].enabled] = calc.table[i]
            /\ i \in hit => calc.out[i].enabled = calc.enabled
            /\ i \notin hit => calc.out[i].enabled = calc.table[i].enabled
       /\ hit = {} => calc.out = calc.table

\* the id is the id of another shop's rule whose flag the call would flip
C12_Witness ==
  /\ calc.fn = "toggleRuleEnabled" /\ calc.step = "out"
  /\ \E i \in 1..Len(calc.table) :
       /\ calc.table[i].id = calc.ruleId
       /\ calc.table[i].shopId # calc.shopId
       /\ calc.table[i].enabled # calc.enabled
  /\ calc.out = calc.table

\* the comparison an operator stands for, on exact decimals
Less(a, b) == a.n * b.d < b.n * a.d

Holds(operator, a, b) ==
  CASE operator = "gt" -> Less(b, a)
    [] operator = "lt" -> Less(a, b)
    [] operator = "eq" -> ~Less(a, b) /\ ~Less(b, a)

SingleRuleCalled(field) ==
  calc.fn = "evaluateSingleRule" /\ calc.step = "out" /\ calc.rule.field = field

\* C13: a vendor rule matches exactly when the vendor is known, the
\* operator is eq, and vendor and rule value are equal once surrounding
\* white space and case are ignored.
C13_VendorRule ==
  SingleRuleCalled("vendor") =>
    (calc.out <=> /\ calc.vendor.text # NullStr
                  /\ calc.rule.operator = "eq"
                  /\ calc.vendor.core = calc.value.core)

C13_Witness ==
  /\ SingleRuleCalled("vendor")
  /\ calc.out
  /\ calc.p.vendor # calc.rule.value
  /\ calc.p.vendor[Len(calc.p.vendor)] = " "

\* what a rule of a batch is expected to do, from the reading of its value
BatchCalled == calc.fn = "evaluateProductRules" /\ calc.step = "out"

Expected(product, vendor, rule) ==
  LET val == BatchValue(rule.value)
  IN CASE rule.field = "price" ->
            /\ product.price # NullRec
            /\ val.num # NaN
            /\ Holds(rule.operator, product.price, val.num)
       [] rule.field = "inventory" ->
            /\ product.totalInventory # NullRec
            /\ val.int # NaN
            /\ Holds(rule.operator, product.totalInventory, val.int)
       [] rule.field = "vendor" ->
            /\ vendor.text # NullStr
            /\ rule.operator = "eq"
            /\ vendor.core = val.core

Unparsable(rule) == rule.field = "price" /\ BatchValue(rule.value).num = NaN

\* C14: a price rule matches exactly when the price is known, the rule
\* value parses as a number, and the operator's comparison holds between
\* the price and that number; an unparsable value gives no match, and in a
\* batch the tags of the matching enabled rules are all returned, whether
\* or not the batch holds a price rule with an unparsable value.
C14_PriceRule ==
  /\ SingleRuleCalled("price") =>
       (calc.out <=> /\ calc.p.price # NullRec
                     /\ calc.value.num # NaN
                     /\ Holds(calc.rule.operator, calc.p.price, calc.value.num))
  /\ BatchCalled =>
       Elems(calc.out) =
         { calc.rules[i].tag : i \in { j \in 1..Len(calc.rules) :
                                         /\ calc.rules[j].enabled
                                         /\ ~Unparsable(calc.rules[j])
                                         /\ Expected(calc.p, calc.vendor, calc.rules[j]) } }

\* the first rule of the batch has an unparsable value, a later one matches
C14_Witness ==
  /\ BatchCalled
  /\ Len(calc.rules) >= 2
  /\ calc.rules[1].enabled /\ Unparsable(calc.rules[1])
  /\ calc.p.price # NullRec
  /\ calc.out = <<calc.rules[2].tag>>
  /\ calc.rules[2].field = "price"

\* C15: an inventory rule matches exactly when the total inventory is
\* known, the rule value parses as an integer, and the operator's comparison
\* holds between the total inventory and that integer.
C15_InventoryRule ==
  SingleRuleCalled("inventory") =>
    (calc.out <=> /\ calc.p.totalInventory # NullRec
                  /\ calc.value.int # NaN
                  /\ Holds(calc.rule.operator, calc.p.totalInventory, calc.value.int))

\* the value has a fraction, and the rule matches on its integer part
C15_Witness ==
  /\ SingleRuleCalled("inventory")
  /\ calc.out
  /\ calc.rule.operator = "eq"
  /\ calc.value.num # calc.value.int

\* C16: a rule whose field is unknown in the record (null) does not match,
\* whatever its operator and value.
FieldUnknown(product, field) ==
  CASE field = "price" -> product.price = NullRec
    [] field = "inventory" -> product.totalInventory = NullRec
    [] field = "vendor" -> product.vendor = NullStr

C16_UnknownFieldNeverMatches ==
  (calc.fn = "evaluateSingleRule" /\ calc.step = "out"
     /\ FieldUnknown(calc.p, calc.rule.field)) => ~calc.out

\* the price is unknown and the rule is one that a price of zero would match
C16_Witness ==
  /\ SingleRuleCalled("price")
  /\ calc.p.price = NullRec
  /\ calc.rule.operator = "lt"
  /\ calc.value.num # NaN
  /\ ~calc.out

\* C20: evaluateProductRules(p, rules) is what it returns for the enabled
\* rules alone, every returned tag is the tag of an enabled rule that
\* matches p, and no tag is returned twice.
EnabledOnly(rules) == SelectSeq(rules, LAMBDA r : r.enabled)

C20_DisabledRulesAreSkipped ==
  BatchCalled =>
    /\ calc.out = evaluateProductRules(calc.p, EnabledOnly(calc.rules))
    /\ \A k \in 1..Len(calc.out) :
         /\ \E i \in 1..Len(calc.rules) :
              /\ calc.rules[i].enabled
              /\ calc.rules[i].tag = calc.out[k]
              /\ Expected(calc.p, calc.vendor, calc.rules[i])
         /\ \A m \in 1..Len(calc.out) : calc.out[m] = calc.out[k] => m = k

\* a disabled rule matches the product and its tag is not returned, while
\* an enabled rule's tag is
C20_Witness ==
  /\ BatchCalled
  /\ calc.out # <<>>
  /\ \E i \in 1..Len(calc.rules) :
       /\ ~calc.rules[i].enabled
       /\ Expected(calc.p, calc.vendor, calc.rules[i])
       /\ ~Has(calc.out, calc.rules[i].tag)

MapCalled == calc.fn = "mapWebhookPayloadToProduct" /\ calc.step = "out"

ApplyCalled == calc.fn = "applyProductRulesForShop" /\ calc.step = "out"

NoVariants == ~calc.hasVariants \/ calc.variants = <<>>

SameNumber(a, b) ==
  IF a = NullRec \/ b = NullRec THEN a = b ELSE ~Less(a, b) /\ ~Less(b, a)

\* the tags of a request come from enabled rules of other fields only
\* (the payloads of these calls carry no tags)
NoTagOfField(field) ==
  calc.out # NullRec =>
    \A t \in Elems(calc.out.tags) :
      \E i \in 1..Len(calc.rules) :
        /\ calc.rules[i].enabled
        /\ calc.rules[i].field # field
        /\ calc.rules[i].tag = t

\* C17: the canonical price is the number of the first variant's price
\* string, and null (not zero) when there is no first variant or its price
\* is missing or no number; the Applier then applies no price rule's tag.
ExpectedPrice == IF NoVariants THEN NullRec ELSE calc.variants[1].price.num

C17_PriceOfFirstVariant ==
  /\ MapCalled => SameNumber(calc.out.productForEvaluation.price, ExpectedPrice)
  /\ (ApplyCalled /\ ExpectedPrice = NullRec) => NoTagOfField("price")

\* the first variant has no usable price, the second one has a price
C17_Witness ==
  /\ MapCalled
  /\ Len(calc.variants) = 2
  /\ calc.variants[1].price.text = <<"a", "b", "c">>
  /\ calc.variants[2].price.num # NullRec
  /\ calc.out.productForEvaluation.price = NullRec

\* C18 (as claimed): the total inventory is the sum of the variants'
\* counts, a missing count being zero, and null when the variants list is
\* absent or empty; the Applier then applies no inventory rule's tag.
RECURSIVE SumQty(_)
SumQty(variants) ==
  IF variants = <<>> THEN 0
  ELSE (IF Head(variants).qty = NullRec THEN 0 ELSE Head(variants).qty.n)
       + SumQty(Tail(variants))

ExpectedInventory == IF NoVariants THEN NullRec ELSE Num(SumQty(calc.variants), 1)

C18_InventoryIsSumOrUnknown ==
  /\ MapCalled => SameNumber(calc.out.productForEvaluation.totalInventory, ExpectedInventory)
  /\ (ApplyCalled /\ NoVariants) => NoTagOfField("inventory")

\* C19 (as claimed): the existing tags are the trimmed non-empty pieces of
\* the tags string, each once; none for an absent tags string.
Cores(pieces) ==
  SelectSeq([i \in 1..Len(pieces) |-> pieces[i].core], LAMBDA c : c # <<>>)

C19_ExistingTagSet ==
  MapCalled =>
    IF calc.hasTags
    THEN /\ Elems(calc.out.existingTags) = Elems(Cores(calc.pieces))
         /\ \A i, j \in 1..Len(calc.out.existingTags) :
              calc.out.existingTags[i] = calc.out.existingTags[j] => i = j
    ELSE calc.out.existingTags = <<>>

\* C19 (amended): the existing tags are the trimmed non-empty pieces of the
\* tags string in their order, a repeated tag as often as it occurs; none
\* for an absent tags string.
C19_ExistingTagList ==
  MapCalled =>
    calc.out.existingTags = IF calc.hasTags THEN Cores(calc.pieces) ELSE <<>>

\* a padded piece, an empty piece and a tag that occurs twice
C19_Witness ==
  /\ MapCalled /\ calc.hasTags
  /\ \E i \in 1..Len(calc.pieces) : calc.pieces[i].core = <<>>
  /\ \E i \in 1..Len(calc.pieces) :
       calc.pieces[i].core # <<>> /\ calc.pieces[i].text # calc.pieces[i].core
  /\ Len(calc.out.existingTags) = 2
  /\ calc.out.existingTags[1] = calc.out.existingTags[2]

\* C21: the tag set that evaluateProductRules returns does not depend on
\* the order of the rules, and whether mergeProductTags reports a change,
\* and the tag set it then returns, do not depend on the order of the
\* existing tags or of the rule tags.
C21_OrderIndependent ==
  /\ (calc.fn = "evaluateProductRules twice" /\ calc.step = "out") =>
       Elems(calc.out) = Elems(calc.out2)
  /\ (calc.fn = "mergeProductTags twice" /\ calc.step = "out") =>
       /\ (calc.out = NO_CHANGE) <=> (calc.out2 = NO_CHANGE)
       /\ Elems(calc.out) = Elems(calc.out2)

\* two rules with different tags match, and are evaluated in both orders
C21_Witness ==
  /\ calc.fn = "evaluateProductRules twice" /\ calc.step = "out"
  /\ calc.rules2 # calc.rules
  /\ Len(calc.out) = 2
  /\ calc.out2 = <<calc.out[2], calc.out[1]>>

\* C22: in every step each rule of the table stays in its shop's rule list
\* with the same id, shopId, field, operator, value and tag; only its enabled
\* flag may differ.
C22_RuleLifecycle ==
  [][\A i \in 1..Len(ruleTable) :
       LET r == ruleTable[i]
           after == getRulesForShop(ruleTable', r.shopId)
       IN \E k \in 1..Len(after) :
            /\ after[k].id = r.id
            /\ [after[k] EXCEPT !.enabled = r.enabled] = r]_vars

\* a rule was disabled and another rule was created after it
C22_Witness ==
  /\ Len(ruleTable) >= 2
  /\ ~ruleTable[1].enabled
  /\ ruleTable[2].enabled

\* C25: mergeProductTags(E, R) is NO_CHANGE exactly when every tag of R is
\* in E, and otherwise a list without duplicates whose tags are exactly the
\* tags of E and of R.
C25_MergeExact ==
  calc.step = "merged" =>
    IF Elems(calc.R) \subseteq Elems(calc.E)
    THEN calc.M = NO_CHANGE
    ELSE /\ calc.M # NO_CHANGE
         /\ Elems(calc.M) = Elems(calc.E) \cup Elems(calc.R)
         /\ \A i, j \in 1..Len(calc.M) : calc.M[i] = calc.M[j] => i = j

\* E and R both hold a tag twice, and R brings a new tag
C25_Witness ==
  /\ calc.step = "merged"
  /\ Len(calc.E) = 2 /\ calc.E[1] = calc.E[2]
  /\ Len(calc.R) = 2 /\ calc.R[1] = calc.R[2]
  /\ calc.M = <<calc.E[1], calc.R[1]>>

\* C30: a price or inventory rule whose value is a number followed by other
\* characters is compared using the number in front (for an inventory rule
\* its integer part); only a value that does not start with a number makes
\* the rule never match.
C30_NumericPrefix ==
  /\ (SingleRuleCalled("price") /\ calc.value.numeral = "none") =>
       IF calc.value.num = NaN THEN ~calc.out
       ELSE calc.out <=> /\ calc.p.price # NullRec
                         /\ Holds(calc.rule.operator, calc.p.price, calc.value.num)
  /\ (SingleRuleCalled("inventory") /\ calc.value.numeral # "int") =>
       IF calc.value.int = NaN THEN ~calc.out
       ELSE calc.out <=> /\ calc.p.totalInventory # NullRec
                         /\ Holds(calc.rule.operator, calc.p.totalInventory, calc.value.int)

\* the rule price eq '12abc' matches the price 12
C30_Witness ==
  /\ SingleRuleCalled("price")
  /\ calc.rule.value = <<"1", "2", "a", "b", "c">>
  /\ calc.rule.operator = "eq"
  /\ calc.out

CreateCalled == calc.fn = "actionCreate" /\ calc.step = "out" /\ calc.shop # NullRec

FormComplete ==
  /\ calc.form.field # "" /\ calc.form.operator # ""
  /\ calc.value.core # <<>> /\ calc.tag.core # <<>>

\* C26: the create intent stores a rule only for a form with a field, an
\* operator and a value and tag that are not blank; for any other form it
\* answers 'All fields are required.' and leaves the rules as they were.
\* A stored rule is appended for the session's shop, enabled, with the
\* value and tag without their surrounding white space.
C26_CreateValidated ==
  CreateCalled =>
    /\ ~FormComplete =>
         /\ calc.out.result = "All fields are required."
         /\ calc.out.table = calc.table
    /\ FormComplete =>
         \/ calc.out.table = calc.table /\ ~calc.dbOk
         \/ /\ calc.out.result = "ok"
            /\ Len(calc.out.table) = Len(calc.table) + 1
            /\ SubSeq(calc.out.table, 1, Len(calc.table)) = calc.table
            /\ LET r == calc.out.table[Len(calc.out.table)]
               IN /\ r.shopId = calc.shop.id
                  /\ r.enabled
                  /\ r.field = calc.form.field /\ r.operator = calc.form.operator
                  /\ r.value = calc.value.core /\ r.value # <<>>
                  /\ r.tag = calc.tag.core /\ r.tag # <<>>

\* a form whose tag has white space around it was stored
C26_Witness ==
  /\ CreateCalled
  /\ calc.form.tag = <<" ", "v", "i", "p">>
  /\ calc.out.result = "ok"
  /\ Len(calc.out.table) = 2
  /\ calc.out.table[2].tag = TagVip

\* C27: once the store has executed a mutation of the Applier, processing
\* the notification which that mutation caused, with the same rules and the
\* same product attributes, issues no further mutation, whatever tags the
\* create action accepted for the rules.
C27_FeedbackLoopTerminates ==
  (calc.fn = "feedback" /\ calc.step = "again") => calc.again = NullRec

Uninstalled(table) ==
  table[LifeShop] # NullRec /\ table[LifeShop].uninstalledAt # NullRec

\* C24: upsertShop on a shop that has a record keeps that record (its id
\* and its first installedAt), replaces the access token and clears
\* uninstalledAt, and on a shop without a record creates it with installedAt
\* now; getShop and isShopInstalled report an installation exactly when the
\* record exists and its uninstalledAt is null.
C24_InstallLifecycle ==
  /\ [][\A tok \in Tokens :
          AfterAuthToken(tok) =>
            LET old == shopTable[LifeShop]
                new == shopTable'[LifeShop]
            IN /\ new # NullRec
               /\ new.accessToken = tok /\ new.uninstalledAt = NullRec
               /\ new.shopDomain = LifeShop
               /\ IF old = NullRec THEN new.installedAt = Date(clock)
                  ELSE new.installedAt = old.installedAt /\ new.id = old.id
               /\ \A s \in Shops \ {LifeShop} : shopTable'[s] = shopTable[s]
               /\ isShopInstalled(shopTable', LifeShop)
               /\ getShop(shopTable', LifeShop) =
                    [shopDomain |-> LifeShop, accessToken |-> tok,
                     installedAt |-> new.installedAt]]_vars
  /\ [](Uninstalled(shopTable) =>
          ~isShopInstalled(shopTable, LifeShop) /\ getShop(shopTable, LifeShop) = NullRec)
  /\ [](shopTable[LifeShop] = NullRec =>
          ~isShopInstalled(shopTable, LifeShop) /\ getShop(shopTable, LifeShop) = NullRec)

\* the shop was installed, marked uninstalled by a delivery, and installed
\* again with another token; its record still has the first installedAt
C24_Witness ==
  /\ install.installs = 2 /\ install.authed
  /\ \E i \in Deliveries : unin[i].pc = "done" /\ unin[i].event = 1 /\ ~unin[i].threw
                             /\ unin[i].shopRecord # NullRec
  /\ isShopInstalled(shopTable, LifeShop)
  /\ shopTable[LifeShop].accessToken = "token2"
  /\ shopTable[LifeShop].installedAt = Date(1)
  /\ clock = 3

\* a finished delivery of the notification of the uninstall that ended the
\* shop's latest installation, the app not installed again since, which
\* found the shop's record
DeliveredUninstall(i) ==
  /\ unin[i].pc = "done"
  /\ unin[i].event = install.installs /\ ~install.installed
  /\ unin[i].shopRecord # NullRec

CleanedUp ==
  /\ Uninstalled(shopTable)
  /\ getAllSettings(settingTable, ShopIdOf(LifeShop)) = {}

C28_LateDeliveryIsHarmless ==
  (install.installed /\ install.authed) =>
    /\ isShopInstalled(shopTable, LifeShop)
    /\ \A key \in install.saved :
         SettingExists(settingTable, ShopIdOf(LifeShop), key)

\* C29 (as claimed): a setting that the merchant deleted on the settings
\* page has no record afterwards, also when a save of it was scheduled less
\* than a second before the deletion, and its deletion did not fail.
C29_DeletedStaysDeleted ==
  \A key \in page.deleted :
    /\ ~SettingExists(settingTable, ShopIdOf(LifeShop), key)
    /\ key \notin page.failed
====
